---- MODULE Spec2Model ----
(***************************************************************************)
(* join-pdf: listPdfs, parsePages, join, testList (the library) and        *)
(* parsePagesArg (the command line's decoder of --pages).                   *)
(*                                                                          *)
(* JavaScript values are tagged records; a string is a sequence of          *)
(* one-character strings, so that trim, split, the regular expressions and  *)
(* parseInt are computed on characters.                                     *)
(***************************************************************************)
EXTENDS Integers, Sequences, FiniteSets, TLC

\* ------------------------------------------------------------------ bounds
MaxPdfs == 2
MaxPages == 2
MaxLen == 2
MaxTokens == 2

\* ------------------------------------------------------- JavaScript values
Undefined == [t |-> "undefined"]
\* A number n (half = FALSE) or n + 1/2 (half = TRUE)
Num(n) == [t |-> "number", v |-> n, half |-> FALSE]
NumHalf(n) == [t |-> "number", v |-> n, half |-> TRUE]
Str(s) == [t |-> "string", s |-> s]

TypeOf(x) == x.t

\* x < k for a number x and an integer k
LessThan(x, k) == IF x.half THEN x.v + 1 <= k ELSE x.v < k

\* arr[x] for an array (0-based) and a number x: undefined off the array
ArrayGet(arr, x) ==
    IF ~x.half /\ x.v >= 0 /\ x.v < Len(arr) THEN arr[x.v + 1] ELSE Undefined

\* ------------------------------------------------------------ strings
Digits == <<"0", "1", "2", "3", "4", "5", "6", "7", "8", "9">>
Digit == {Digits[i] : i \in 1..Len(Digits)}
WhiteSpace == {" ", "\t", "\n"}
UpperCase == <<"A", "B", "C", "D", "E", "F", "G", "H", "I", "J", "K", "L", "M",
               "N", "O", "P", "Q", "R", "S", "T", "U", "V", "W", "X", "Y", "Z">>
LowerCase == <<"a", "b", "c", "d", "e", "f", "g", "h", "i", "j", "k", "l", "m",
               "n", "o", "p", "q", "r", "s", "t", "u", "v", "w", "x", "y", "z">>

RECURSIVE TrimStart(_)
TrimStart(s) ==
    IF s # <<>> /\ Head(s) \in WhiteSpace THEN TrimStart(Tail(s)) ELSE s

RECURSIVE TrimEnd(_)
TrimEnd(s) ==
    IF s # <<>> /\ s[Len(s)] \in WhiteSpace
    THEN TrimEnd(SubSeq(s, 1, Len(s) - 1))
    ELSE s

\* String.prototype.trim
Trim(s) == TrimEnd(TrimStart(s))

LowerChar(c) ==
    IF \E i \in 1..Len(UpperCase) : UpperCase[i] = c
    THEN LowerCase[CHOOSE i \in 1..Len(UpperCase) : UpperCase[i] = c]
    ELSE c

\* String.prototype.toLowerCase
ToLowerCase(s) == [i \in 1..Len(s) |-> LowerChar(s[i])]

\* String.prototype.includes, for a one-character needle
Includes(s, c) == \E i \in 1..Len(s) : s[i] = c

\* String.prototype.split, for a one-character separator
RECURSIVE Split(_, _)
Split(s, sep) ==
    IF ~Includes(s, sep) THEN <<s>>
    ELSE LET i == CHOOSE i \in 1..Len(s) :
                      s[i] = sep /\ \A j \in 1..(i - 1) : s[j] # sep
         IN <<SubSeq(s, 1, i - 1)>> \o Split(SubSeq(s, i + 1, Len(s)), sep)

\* The longest prefix of s whose characters are all in class
RECURSIVE TakeWhile(_, _)
TakeWhile(s, class) ==
    IF s # <<>> /\ Head(s) \in class
    THEN <<Head(s)>> \o TakeWhile(Tail(s), class)
    ELSE <<>>

Drop(s, n) == SubSeq(s, n + 1, Len(s))

DigitValue(c) == (CHOOSE i \in 1..Len(Digits) : Digits[i] = c) - 1

\* parseInt(s, 10) of a string of digits
RECURSIVE ParseInt(_)
ParseInt(s) ==
    IF Len(s) = 0 THEN 0
    ELSE 10 * ParseInt(SubSeq(s, 1, Len(s) - 1)) + DigitValue(s[Len(s)])

NoMatch == [ok |-> FALSE]

\* /^(\d+)\s*-\s*(\d+)$/.exec(s)
RangeRegExp(s) ==
    LET g1 == TakeWhile(s, Digit)
        r1 == Drop(s, Len(g1))
        r2 == Drop(r1, Len(TakeWhile(r1, WhiteSpace)))
    IN IF g1 = <<>> \/ r2 = <<>> \/ Head(r2) # "-" THEN NoMatch
       ELSE LET r3 == Tail(r2)
                g2 == Drop(r3, Len(TakeWhile(r3, WhiteSpace)))
            IN IF g2 # <<>> /\ TakeWhile(g2, Digit) = g2
               THEN [ok |-> TRUE, g1 |-> g1, g2 |-> g2]
               ELSE NoMatch

\* /^(\d+):([\d]+(?:-[\d]+)?)$/.exec(s)
TokenRegExp(s) ==
    LET g1 == TakeWhile(s, Digit)
        r1 == Drop(s, Len(g1))
    IN IF g1 = <<>> \/ r1 = <<>> \/ Head(r1) # ":" THEN NoMatch
       ELSE LET g2 == Tail(r1)
                a == TakeWhile(g2, Digit)
                r2 == Drop(g2, Len(a))
            IN IF a = <<>> THEN NoMatch
               ELSE IF r2 = <<>> THEN [ok |-> TRUE, g1 |-> g1, g2 |-> g2]
               ELSE IF Head(r2) = "-" /\ Tail(r2) # <<>>
                       /\ TakeWhile(Tail(r2), Digit) = Tail(r2)
               THEN [ok |-> TRUE, g1 |-> g1, g2 |-> g2]
               ELSE NoMatch

\* ------------------------------------------------------------ parsePages
Return(v) == [thrown |-> FALSE, value |-> v]
Throw(e) == [thrown |-> TRUE, error |-> e]

\* for (let p = start; p <= end; p++) pages.push(p)
PageRange(start, end) == [k \in 1..(end - start + 1) |-> start + k - 1]

parsePages(page) ==
    IF TypeOf(page) = "number" THEN Return(<<page.v>>)
    ELSE IF TypeOf(page) # "string"
    THEN Throw([name |-> "TypeError", message |-> "page.trim is not a function"])
    ELSE LET match == RangeRegExp(Trim(page.s))
         IN IF ~match.ok
            THEN Throw([name |-> "Error",
                        message |-> "Invalid page range format", page |-> page.s])
            ELSE LET start == ParseInt(match.g1)
                     end == ParseInt(match.g2)
                 IN IF start > end
                    THEN Throw([name |-> "Error",
                                message |-> "Invalid range: start > end",
                                page |-> page.s])
                    ELSE Return(PageRange(start, end))

\* --------------------------------------------------------- parsePagesArg
BlankWord == <<"b", "l", "a", "n", "k">>
BlankItem == [blank |-> TRUE, pdf |-> Undefined, page |-> Undefined]
PageItem(pdf, page) == [blank |-> FALSE, pdf |-> pdf, page |-> page]

\* parsePagesArg's loop body comparing the token itself with "blank"
ParseTokenCaseSensitive(token) ==
    IF token = <<>> \/ token = BlankWord THEN Return(BlankItem)
    ELSE LET match == TokenRegExp(token)
         IN IF ~match.ok
            THEN Throw([name |-> "Error", message |-> "Invalid --pages token",
                        token |-> token])
            ELSE LET pdf == ParseInt(match.g1)
                     page == IF Includes(match.g2, "-")
                             THEN Str(match.g2)
                             ELSE Num(ParseInt(match.g2))
                 IN Return(PageItem(Num(pdf), page))

\* One iteration of parsePagesArg's loop over the trimmed tokens
ParseToken(token) ==
    IF token = <<>> \/ ToLowerCase(token) = BlankWord THEN Return(BlankItem)
    ELSE LET match == TokenRegExp(token)
         IN IF ~match.ok
            THEN Throw([name |-> "Error", message |-> "Invalid --pages token",
                        token |-> token])
            ELSE LET pdf == ParseInt(match.g1)
                     page == IF Includes(match.g2, "-")
                             THEN Str(match.g2)
                             ELSE Num(ParseInt(match.g2))
                 IN Return(PageItem(Num(pdf), page))

RECURSIVE ParseTokens(_, _)
ParseTokens(tokens, items) ==
    IF tokens = <<>> THEN Return(items)
    ELSE LET r == ParseToken(Head(tokens))
         IN IF r.thrown THEN r
            ELSE ParseTokens(Tail(tokens), Append(items, r.value))

parsePagesArg(arg) ==
    LET tokens == [i \in 1..Len(Split(arg, ",")) |-> Trim(Split(arg, ",")[i])]
    IN ParseTokens(tokens, <<>>)

\* ------------------------------------------------- files and documents
\* The files on disk: one PDF of each page count 0..MaxPages, and one file
\* that PDFDocument.load rejects.
FileName(n) == "p" \o ToString(n) \o ".pdf"
BrokenFile == "broken.pdf"
GoodFiles == {FileName(n) : n \in 0..MaxPages}
Files == GoodFiles \cup {BrokenFile}
PageCountOnDisk(file) == CHOOSE n \in 0..MaxPages : FileName(n) = file

\* A page of a document: the file it comes from and its 1-based number
SourcePage(file, n) == [blank |-> FALSE, file |-> file, number |-> n]
BlankPage == [blank |-> TRUE]

\* await fs.readFile(file); await PDFDocument.load(data)
LoadPdf(file) ==
    IF file \in GoodFiles
    THEN Return([pages |-> [n \in 1..PageCountOnDisk(file) |-> SourcePage(file, n)]])
    ELSE Throw([name |-> "Error", message |-> "Failed to parse PDF document",
                file |-> file])

\* PDFDocument.getPageCount
GetPageCount(doc) == Len(doc.pages)

\* PDFDocument.create
CreatePdf == [pages |-> <<>>]

\* outPdf.addPage(page)
AddPage(doc, page) == [doc EXCEPT !.pages = Append(@, page)]

\* outPdf.copyPages(srcPdf, [index]): the page at the 0-based index
CopyPage(srcPdf, index) == srcPdf.pages[index + 1]

\* outPdf.save(): the serialized document
Save(doc) == [bytes |-> "%PDF", pages |-> doc.pages]

\* --------------------------------------------------------------- listPdfs
\* listPdfs' loop body listing a file that does not load with 0 pages
ListPdfsIterationLenient(result, file) ==
    LET loaded == LoadPdf(file)
    IN IF loaded.thrown
       THEN Return(Append(result, [file |-> file, pages |-> 0]))
       ELSE Return(Append(result,
                [file |-> file, pages |-> GetPageCount(loaded.value)]))

\* One iteration of listPdfs' loop: load the file, push { file, pages }
ListPdfsIteration(result, file) ==
    LET loaded == LoadPdf(file)
    IN IF loaded.thrown THEN loaded
       ELSE Return(Append(result,
                [file |-> file, pages |-> GetPageCount(loaded.value)]))

\* ------------------------------------------------------------------- join
\* One iteration of join's loop over the files: load and push the document
JoinLoadIteration(loadedPdfs, file) ==
    LET loaded == LoadPdf(file)
    IN IF loaded.thrown THEN loaded
       ELSE Return(Append(loadedPdfs, loaded.value))

\* join's loop over pagesToCopy leaving out a page the output already holds
RECURSIVE JoinCopyPagesOnce(_, _, _, _, _)
JoinCopyPagesOnce(outPdf, srcPdf, pagesToCopy, pdf, totalPages) ==
    IF pagesToCopy = <<>> THEN [thrown |-> FALSE, outPdf |-> outPdf]
    ELSE LET pageNum == Head(pagesToCopy)
         IN IF pageNum < 1 \/ pageNum > totalPages
            THEN [thrown |-> TRUE, outPdf |-> outPdf,
                  error |-> [name |-> "Error",
                             message |-> "joinList requests page from pdf which has only pages",
                             page |-> pageNum, pdf |-> pdf, total |-> totalPages]]
            ELSE IF \E n \in 1..Len(outPdf.pages) :
                        outPdf.pages[n] = CopyPage(srcPdf, pageNum - 1)
            THEN JoinCopyPagesOnce(outPdf, srcPdf, Tail(pagesToCopy), pdf, totalPages)
            ELSE JoinCopyPagesOnce(AddPage(outPdf, CopyPage(srcPdf, pageNum - 1)),
                                   srcPdf, Tail(pagesToCopy), pdf, totalPages)

\* join's loop over pagesToCopy passing over a page the source does not have
RECURSIVE JoinCopyPagesSkip(_, _, _, _, _)
JoinCopyPagesSkip(outPdf, srcPdf, pagesToCopy, pdf, totalPages) ==
    IF pagesToCopy = <<>> THEN [thrown |-> FALSE, outPdf |-> outPdf]
    ELSE LET pageNum == Head(pagesToCopy)
         IN IF pageNum < 1 \/ pageNum > totalPages
            THEN JoinCopyPagesSkip(outPdf, srcPdf, Tail(pagesToCopy), pdf, totalPages)
            ELSE JoinCopyPagesSkip(AddPage(outPdf, CopyPage(srcPdf, pageNum - 1)),
                                   srcPdf, Tail(pagesToCopy), pdf, totalPages)

\* join's loop over pagesToCopy; a throw leaves the pages copied so far in
\* outPdf
RECURSIVE JoinCopyPages(_, _, _, _, _)
JoinCopyPages(outPdf, srcPdf, pagesToCopy, pdf, totalPages) ==
    IF pagesToCopy = <<>> THEN [thrown |-> FALSE, outPdf |-> outPdf]
    ELSE LET pageNum == Head(pagesToCopy)
         IN IF pageNum < 1 \/ pageNum > totalPages
            THEN [thrown |-> TRUE, outPdf |-> outPdf,
                  error |-> [name |-> "Error",
                             message |-> "joinList requests page from pdf which has only pages",
                             page |-> pageNum, pdf |-> pdf, total |-> totalPages]]
            ELSE JoinCopyPages(AddPage(outPdf, CopyPage(srcPdf, pageNum - 1)),
                               srcPdf, Tail(pagesToCopy), pdf, totalPages)

\* One iteration of join's loop over joinList
JoinItemIteration(loadedPdfs, outPdf, item) ==
    IF item.blank THEN [thrown |-> FALSE, outPdf |-> AddPage(outPdf, BlankPage)]
    ELSE IF TypeOf(item.pdf) # "number" \/ LessThan(item.pdf, 0)
    THEN [thrown |-> TRUE, outPdf |-> outPdf,
          error |-> [name |-> "Error",
                     message |-> "Invalid joinList entry: missing or invalid 'pdf' index"]]
    ELSE IF item.page = Undefined
    THEN [thrown |-> TRUE, outPdf |-> outPdf,
          error |-> [name |-> "Error", message |-> "Missing 'page' in joinList entry",
                     item |-> item]]
    ELSE LET srcPdf == ArrayGet(loadedPdfs, item.pdf)
         IN IF srcPdf = Undefined
            THEN [thrown |-> TRUE, outPdf |-> outPdf,
                  error |-> [name |-> "TypeError",
                             message |-> "Cannot read properties of undefined (reading 'getPageCount')"]]
            ELSE LET totalPages == GetPageCount(srcPdf)
                     pagesToCopy == parsePages(item.page)
                 IN IF pagesToCopy.thrown
                    THEN [thrown |-> TRUE, outPdf |-> outPdf,
                          error |-> pagesToCopy.error]
                    ELSE JoinCopyPages(outPdf, srcPdf, pagesToCopy.value,
                                       item.pdf, totalPages)

\* --------------------------------------------------------------- testList
\* usage: pdfs.map((file, idx) => ({ file, totalPages: info[idx].pages, usedPages: {} }))
NewTestResult(files, info) ==
    [errors |-> <<>>,
     usage |-> [idx \in 1..Len(files) |->
                  [file |-> files[idx], totalPages |-> info[idx].pages,
                   usedPages |-> <<>>]]]

\* usageMap[pageNum] = 1
IncrementOnce(usageMap, pageNum) ==
    [p \in DOMAIN usageMap \cup {pageNum} |->
        IF p = pageNum THEN 1 ELSE usageMap[p]]

\* usageMap[pageNum] = (usageMap[pageNum] || 0) + 1
Increment(usageMap, pageNum) ==
    LET old == IF pageNum \in DOMAIN usageMap THEN usageMap[pageNum] ELSE 0
    IN [p \in DOMAIN usageMap \cup {pageNum} |->
          IF p = pageNum THEN old + 1 ELSE usageMap[p]]

\* testList's loop over pages leaving the loop at the first page out of range
RECURSIVE TestListPagesBreak(_, _, _, _, _)
TestListPagesBreak(result, pages, pdfIndex, total, i) ==
    IF pages = <<>> THEN Return(result)
    ELSE LET pageNum == Head(pages)
         IN IF pageNum < 1 \/ pageNum > total
            THEN Return([result EXCEPT !.errors = Append(@,
                            [entry |-> i, message |-> "has no page",
                             pdf |-> pdfIndex, page |-> pageNum, max |-> total])])
            ELSE IF ArrayGet(result.usage, pdfIndex) = Undefined
            THEN Throw([name |-> "TypeError",
                        message |-> "Cannot read properties of undefined (reading 'usedPages')"])
            ELSE TestListPagesBreak(
                     [result EXCEPT !.usage[pdfIndex.v + 1].usedPages =
                                        Increment(@, pageNum)],
                     Tail(pages), pdfIndex, total, i)

\* testList's loop over pages
RECURSIVE TestListPages(_, _, _, _, _)
TestListPages(result, pages, pdfIndex, total, i) ==
    IF pages = <<>> THEN Return(result)
    ELSE LET pageNum == Head(pages)
         IN IF pageNum < 1 \/ pageNum > total
            THEN TestListPages(
                     [result EXCEPT !.errors = Append(@,
                         [entry |-> i, message |-> "has no page",
                          pdf |-> pdfIndex, page |-> pageNum, max |-> total])],
                     Tail(pages), pdfIndex, total, i)
            ELSE IF ArrayGet(result.usage, pdfIndex) = Undefined
            THEN Throw([name |-> "TypeError",
                        message |-> "Cannot read properties of undefined (reading 'usedPages')"])
            ELSE TestListPages(
                     [result EXCEPT !.usage[pdfIndex.v + 1].usedPages =
                                        Increment(@, pageNum)],
                     Tail(pages), pdfIndex, total, i)

\* The callback of joinList.forEach without the try around parsePages
TestListItemNoCatch(result, info, item, i) ==
    IF item.blank THEN Return(result)
    ELSE IF TypeOf(item.pdf) # "number" \/ LessThan(item.pdf, 0)
    THEN Return([result EXCEPT !.errors = Append(@,
                    [entry |-> i, message |-> "invalid or missing 'pdf' index"])])
    ELSE IF item.page = Undefined
    THEN Return([result EXCEPT !.errors = Append(@,
                    [entry |-> i, message |-> "missing 'page' value"])])
    ELSE LET pdfIndex == item.pdf
             total == IF ArrayGet(info, pdfIndex) = Undefined
                      THEN 0
                      ELSE ArrayGet(info, pdfIndex).pages
             pages == parsePages(item.page)
         IN IF pages.thrown
            THEN pages
            ELSE TestListPages(result, pages.value, pdfIndex, total, i)

\* The callback of joinList.forEach taking the page count of an index past
\* the sources from the last source instead of 0
TestListItemClamp(result, info, item, i) ==
    IF item.blank THEN Return(result)
    ELSE IF TypeOf(item.pdf) # "number" \/ LessThan(item.pdf, 0)
    THEN Return([result EXCEPT !.errors = Append(@,
                    [entry |-> i, message |-> "invalid or missing 'pdf' index"])])
    ELSE IF item.page = Undefined
    THEN Return([result EXCEPT !.errors = Append(@,
                    [entry |-> i, message |-> "missing 'page' value"])])
    ELSE LET pdfIndex == IF ~item.pdf.half /\ item.pdf.v >= Len(info) /\ Len(info) > 0
                         THEN Num(Len(info) - 1)
                         ELSE item.pdf
             total == IF ArrayGet(info, pdfIndex) = Undefined
                      THEN 0
                      ELSE ArrayGet(info, pdfIndex).pages
             pages == parsePages(item.page)
         IN IF pages.thrown
            THEN Return([result EXCEPT !.errors = Append(@,
                            [entry |-> i, message |-> pages.error.message,
                             caught |-> pages.error])])
            ELSE TestListPages(result, pages.value, pdfIndex, total, i)

\* The callback of joinList.forEach, for the item at 0-based position i
TestListItem(result, info, item, i) ==
    IF item.blank THEN Return(result)
    ELSE IF TypeOf(item.pdf) # "number" \/ LessThan(item.pdf, 0)
    THEN Return([result EXCEPT !.errors = Append(@,
                    [entry |-> i, message |-> "invalid or missing 'pdf' index"])])
    ELSE IF item.page = Undefined
    THEN Return([result EXCEPT !.errors = Append(@,
                    [entry |-> i, message |-> "missing 'page' value"])])
    ELSE LET pdfIndex == item.pdf
             total == IF ArrayGet(info, pdfIndex) = Undefined
                      THEN 0
                      ELSE ArrayGet(info, pdfIndex).pages
             pages == parsePages(item.page)
         IN IF pages.thrown
            THEN Return([result EXCEPT !.errors = Append(@,
                            [entry |-> i, message |-> pages.error.message,
                             caught |-> pages.error])])
            ELSE TestListPages(result, pages.value, pdfIndex, total, i)

\* joinList.forEach((item, i) => ...), from position i on
RECURSIVE TestListForEach(_, _, _, _)
TestListForEach(result, info, items, i) ==
    IF i >= Len(items) THEN Return(result)
    ELSE LET r == TestListItem(result, info, items[i + 1], i)
         IN IF r.thrown THEN r
            ELSE TestListForEach(r.value, info, items, i + 1)

\* ----------------------------------------------------------------- inputs
\* Values of a join item's pdf: missing, negative, not an integer, and the
\* indices 0..MaxPdfs (MaxPdfs is past the end of every list of sources)
PdfValues == {Undefined, Num(-1), NumHalf(0)} \cup {Num(n) : n \in 0..MaxPdfs}

PageStrings ==
    { <<"1", "-", "2">>,
      <<"2", "-", "3">>,
      <<" ", "0", " ", "-", " ", "1", " ">>,
      <<"2", "-", "1">>,
      <<"2">> }

\* Values of a join item's page: missing, the integers 0..MaxPages+1, strings
PageValues ==
    {Undefined} \cup {Num(n) : n \in 0..(MaxPages + 1)}
        \cup {Str(s) : s \in PageStrings}

Items == {BlankItem} \cup {PageItem(pdf, page) : pdf \in PdfValues, page \in PageValues}

JoinLists == UNION {[1..n -> Items] : n \in 0..MaxLen}

\* The lists of files a call is given
FileLists == UNION {[1..n -> Files] : n \in 0..MaxPdfs}

\* Tokens of a --pages string
Tokens ==
    { <<>>,
      <<"b", "l", "a", "n", "k">>,
      <<" ", "B", "l", "a", "n", "K">>,
      <<"b", "l", "a", "n", "k", "s">>,
      <<"0", ":", "1">>,
      <<" ", "1", ":", "2", " ">>,
      <<"0", ":", "1", "-", "2">>,
      <<"1", ":", "2", "-", "1">>,
      <<"0", "1", ":", "0", "2">>,
      <<"0", ":", "1", "-">>,
      <<"0", " ", ":", "1">>,
      <<":", "1">>,
      <<"x">> }

RECURSIVE JoinTokens(_)
JoinTokens(tokens) ==
    IF Len(tokens) = 1 THEN tokens[1]
    ELSE tokens[1] \o <<",">> \o JoinTokens(Tail(tokens))

PagesArgs == {JoinTokens(ts) : ts \in UNION {[1..n -> Tokens] : n \in 1..MaxTokens}}

\* ------------------------------------------------------------------ state
\* One session on fixed files: the --pages string, if any, is decoded; then
\* listPdfs, testList and join are called in the order of the example usage,
\* each once, whatever the call before it returned or threw.
VARIABLES
    pdfs,       \* the files every call is given
    pagesArg,   \* the --pages string (a string value), or undefined
    joinList,   \* the join list: given, or decoded from pagesArg
    active,     \* the call in progress: "none", "listPdfs", "testList", "join"
    decode,     \* the call of parsePagesArg
    list,       \* the call of listPdfs
    test,       \* the call of testList
    joining     \* the call of join

vars == <<pdfs, pagesArg, joinList, active, decode, list, test, joining>>

NotCalled == [status |-> "none"]

Init ==
    /\ pdfs \in FileLists
    /\ \/ pagesArg = Undefined /\ joinList \in JoinLists
       \/ pagesArg \in {Str(a) : a \in PagesArgs} /\ joinList = <<>>
    /\ active = "none"
    /\ decode = NotCalled
    /\ list = NotCalled
    /\ test = NotCalled
    /\ joining = NotCalled

\* The join list is there: given, or decoded
HaveJoinList == pagesArg = Undefined \/ decode.status = "returned"

\* joinData = parsePagesArg(options.pages)
ParsePagesArg ==
    /\ active = "none"
    /\ pagesArg # Undefined
    /\ decode.status = "none"
    /\ LET r == parsePagesArg(pagesArg.s)
       IN IF r.thrown
          THEN /\ decode' = [status |-> "thrown", error |-> r.error]
               /\ UNCHANGED joinList
          ELSE /\ decode' = [status |-> "returned", items |-> r.value]
               /\ joinList' = r.value
    /\ UNCHANGED <<pdfs, pagesArg, active, list, test, joining>>

\* listPdfs(pdfs) is called: result = []
CallListPdfs ==
    /\ active = "none"
    /\ list.status = "none"
    /\ pagesArg = Undefined \/ decode.status # "none"
    /\ list' = [status |-> "running", result |-> <<>>]
    /\ active' = "listPdfs"
    /\ UNCHANGED <<pdfs, pagesArg, joinList, decode, test, joining>>

\* listPdfs: the next file is read and loaded
ListPdfsLoad ==
    /\ active = "listPdfs"
    /\ Len(list.result) < Len(pdfs)
    /\ LET r == ListPdfsIteration(list.result, pdfs[Len(list.result) + 1])
       IN IF r.thrown
          THEN /\ list' = [status |-> "thrown", result |-> list.result,
                           error |-> r.error]
               /\ active' = "none"
          ELSE /\ list' = [list EXCEPT !.result = r.value]
               /\ UNCHANGED active
    /\ UNCHANGED <<pdfs, pagesArg, joinList, decode, test, joining>>

\* listPdfs: return result
ListPdfsReturn ==
    /\ active = "listPdfs"
    /\ Len(list.result) = Len(pdfs)
    /\ list' = [status |-> "returned", result |-> list.result]
    /\ active' = "none"
    /\ UNCHANGED <<pdfs, pagesArg, joinList, decode, test, joining>>

\* testList(pdfs, joinList) is called: it awaits listPdfs(pdfs)
CallTestList ==
    /\ active = "none"
    /\ HaveJoinList
    /\ list.status \in {"returned", "thrown"}
    /\ test.status = "none"
    /\ test' = [status |-> "running", info |-> <<>>]
    /\ active' = "testList"
    /\ UNCHANGED <<pdfs, pagesArg, joinList, decode, list, joining>>

\* testList: listPdfs reads and loads the next file
TestListLoad ==
    /\ active = "testList"
    /\ Len(test.info) < Len(pdfs)
    /\ LET r == ListPdfsIteration(test.info, pdfs[Len(test.info) + 1])
       IN IF r.thrown
          THEN /\ test' = [status |-> "thrown", info |-> test.info,
                           error |-> r.error]
               /\ active' = "none"
          ELSE /\ test' = [test EXCEPT !.info = r.value]
               /\ UNCHANGED active
    /\ UNCHANGED <<pdfs, pagesArg, joinList, decode, list, joining>>

\* testList: listPdfs has returned info; the result is built, forEach runs
\* over the whole join list and the result is returned
TestListRun ==
    /\ active = "testList"
    /\ Len(test.info) = Len(pdfs)
    /\ LET r == TestListForEach(NewTestResult(pdfs, test.info), test.info,
                                joinList, 0)
       IN IF r.thrown
          THEN test' = [status |-> "thrown", info |-> test.info,
                        error |-> r.error]
          ELSE test' = [status |-> "returned", info |-> test.info,
                        result |-> r.value]
    /\ active' = "none"
    /\ UNCHANGED <<pdfs, pagesArg, joinList, decode, list, joining>>

\* join(pdfs, joinList) is called: loadedPdfs = []
CallJoin ==
    /\ active = "none"
    /\ HaveJoinList
    /\ test.status \in {"returned", "thrown"}
    /\ joining.status = "none"
    /\ joining' = [status |-> "running", loadedPdfs |-> <<>>,
                   outPdf |-> Undefined, i |-> 0]
    /\ active' = "join"
    /\ UNCHANGED <<pdfs, pagesArg, joinList, decode, list, test>>

\* join: the next file is read and loaded
JoinLoad ==
    /\ active = "join"
    /\ Len(joining.loadedPdfs) < Len(pdfs)
    /\ LET r == JoinLoadIteration(joining.loadedPdfs,
                                  pdfs[Len(joining.loadedPdfs) + 1])
       IN IF r.thrown
          THEN /\ joining' = [joining EXCEPT !.status = "thrown"]
                                 @@ [error |-> r.error]
               /\ active' = "none"
          ELSE /\ joining' = [joining EXCEPT !.loadedPdfs = r.value]
               /\ UNCHANGED active
    /\ UNCHANGED <<pdfs, pagesArg, joinList, decode, list, test>>

\* join: outPdf = await PDFDocument.create()
JoinCreate ==
    /\ active = "join"
    /\ Len(joining.loadedPdfs) = Len(pdfs)
    /\ joining.outPdf = Undefined
    /\ joining' = [joining EXCEPT !.outPdf = CreatePdf]
    /\ UNCHANGED <<pdfs, pagesArg, joinList, active, decode, list, test>>

\* join: the next item of joinList is processed
JoinItemStep ==
    /\ active = "join"
    /\ joining.outPdf # Undefined
    /\ joining.i < Len(joinList)
    /\ LET r == JoinItemIteration(joining.loadedPdfs, joining.outPdf,
                                  joinList[joining.i + 1])
       IN IF r.thrown
          THEN /\ joining' = [joining EXCEPT !.status = "thrown",
                                             !.outPdf = r.outPdf]
                                 @@ [error |-> r.error]
               /\ active' = "none"
          ELSE /\ joining' = [joining EXCEPT !.outPdf = r.outPdf, !.i = @ + 1]
               /\ UNCHANGED active
    /\ UNCHANGED <<pdfs, pagesArg, joinList, decode, list, test>>

\* join: return await outPdf.save()
JoinSave ==
    /\ active = "join"
    /\ joining.outPdf # Undefined
    /\ joining.i = Len(joinList)
    /\ joining' = [joining EXCEPT !.status = "returned"]
                      @@ [bytes |-> Save(joining.outPdf)]
    /\ active' = "none"
    /\ UNCHANGED <<pdfs, pagesArg, joinList, decode, list, test>>

Next ==
    \/ ParsePagesArg
    \/ CallListPdfs
    \/ ListPdfsLoad
    \/ ListPdfsReturn
    \/ CallTestList
    \/ TestListLoad
    \/ TestListRun
    \/ CallJoin
    \/ JoinLoad
    \/ JoinCreate
    \/ JoinItemStep
    \/ JoinSave

Spec == Init /\ [][Next]_vars

\* ==================================================================
\* What the specification says, stated without the operators above
\* ==================================================================
AllSourcesLoad == \A k \in 1..Len(pdfs) : pdfs[k] \in GoodFiles

SpecDigit(c) ==
    CASE c = "0" -> 0 [] c = "1" -> 1 [] c = "2" -> 2 [] c = "3" -> 3
      [] c = "4" -> 4 [] c = "5" -> 5 [] c = "6" -> 6 [] c = "7" -> 7
      [] c = "8" -> 8 [] c = "9" -> 9 [] OTHER -> -1

SpecAllDigits(s) == Len(s) > 0 /\ \A i \in 1..Len(s) : SpecDigit(s[i]) >= 0

RECURSIVE SpecPow10(_)
SpecPow10(n) == IF n = 0 THEN 1 ELSE 10 * SpecPow10(n - 1)

\* The decimal value of a string of digits
RECURSIVE SpecDecimal(_)
SpecDecimal(s) ==
    IF s = <<>> THEN 0
    ELSE SpecDigit(s[1]) * SpecPow10(Len(s) - 1) + SpecDecimal(Tail(s))

SpecIsSpace(c) == c = " " \/ c = "\t" \/ c = "\n"

\* s without its leading and trailing white space
SpecStrip(s) ==
    LET inked == {i \in 1..Len(s) : ~SpecIsSpace(s[i])}
    IN IF inked = {} THEN <<>>
       ELSE LET a == CHOOSE i \in inked : \A j \in inked : i <= j
                b == CHOOSE i \in inked : \A j \in inked : i >= j
            IN [k \in 1..(b - a + 1) |-> s[a + k - 1]]

\* The hyphens of the stripped string s that split it into digits, white
\* space, "-", white space, digits
SpecRangeHyphens(s) ==
    {h \in 1..Len(s) :
        /\ s[h] = "-"
        /\ SpecAllDigits(SpecStrip(SubSeq(s, 1, h - 1)))
        /\ SpecAllDigits(SpecStrip(SubSeq(s, h + 1, Len(s))))}

SpecIsRange(s) == SpecRangeHyphens(SpecStrip(s)) # {}

SpecStart(s) ==
    LET t == SpecStrip(s)
        h == CHOOSE h \in SpecRangeHyphens(t) : TRUE
    IN SpecDecimal(SpecStrip(SubSeq(t, 1, h - 1)))

SpecEnd(s) ==
    LET t == SpecStrip(s)
        h == CHOOSE h \in SpecRangeHyphens(t) : TRUE
    IN SpecDecimal(SpecStrip(SubSeq(t, h + 1, Len(t))))

\* A page spec resolves: an integer, or a range string with start <= end
SpecParses(page) ==
    \/ page.t = "number"
    \/ page.t = "string" /\ SpecIsRange(page.s) /\ SpecStart(page.s) <= SpecEnd(page.s)

\* The first and last page number a page spec resolves to
SpecFirst(page) == IF page.t = "number" THEN page.v ELSE SpecStart(page.s)
SpecLast(page) == IF page.t = "number" THEN page.v ELSE SpecEnd(page.s)

\* The page numbers of a page spec, ascending; none when it does not resolve
SpecPageNumbers(page) ==
    IF SpecParses(page)
    THEN [k \in 1..(SpecLast(page) - SpecFirst(page) + 1) |-> SpecFirst(page) + k - 1]
    ELSE <<>>

\* pdf is a non-negative integer
SpecPdfIsIndex(item) == item.pdf.t = "number" /\ ~item.pdf.half /\ item.pdf.v >= 0

\* pdf is an index of a source
SpecPdfInRange(item) == SpecPdfIsIndex(item) /\ item.pdf.v < Len(pdfs)

\* The page count of the source an item names; 0 when it names none
SpecTotal(item) ==
    IF SpecPdfInRange(item) THEN PageCountOnDisk(pdfs[item.pdf.v + 1]) ELSE 0

SpecInRange(item, p) == 1 <= p /\ p <= SpecTotal(item)

\* A page-reference entry that is well formed: index, page and page spec
SpecResolves(item) ==
    /\ ~item.blank
    /\ SpecPdfIsIndex(item)
    /\ item.page # Undefined
    /\ SpecParses(item.page)

\* A faulty entry: invalid pdf, missing page, malformed page spec,
\* start > end, out-of-range pdf index, out-of-range page
SpecFaulty(item) ==
    /\ ~item.blank
    /\ \/ ~SpecResolves(item)
       \/ ~SpecPdfInRange(item)
       \/ \E k \in 1..Len(SpecPageNumbers(item.page)) :
              ~SpecInRange(item, SpecPageNumbers(item.page)[k])

\* The positions (1-based) of the faulty entries of the join list
SpecFaultyEntries == {k \in 1..Len(joinList) : SpecFaulty(joinList[k])}

SpecMin(S) == CHOOSE x \in S : \A y \in S : x <= y

\* The pages an entry puts into the output
SpecExpand(item) ==
    IF item.blank THEN <<BlankPage>>
    ELSE [k \in 1..Len(SpecPageNumbers(item.page)) |->
            [blank |-> FALSE, file |-> pdfs[item.pdf.v + 1],
             number |-> SpecPageNumbers(item.page)[k]]]

RECURSIVE SpecConcat(_)
SpecConcat(items) ==
    IF items = <<>> THEN <<>>
    ELSE SpecExpand(Head(items)) \o SpecConcat(Tail(items))

RECURSIVE SpecSum(_)
SpecSum(ns) == IF ns = <<>> THEN 0 ELSE Head(ns) + SpecSum(Tail(ns))

JoinFinished == joining.status \in {"returned", "thrown"}

\* C1: when join succeeds on loadable sources, the output pages are the
\* concatenation, in join-list order, of one blank page per blank item and the
\* pages start..end (ascending) of the named source per page reference; its
\* length is the number of blank items plus the number of resolved page numbers.
C1_OutputIsConcatenation ==
    (AllSourcesLoad /\ joining.status = "returned") =>
        /\ joining.bytes.pages = SpecConcat(joinList)
        /\ Len(joining.bytes.pages) =
               Cardinality({k \in 1..Len(joinList) : joinList[k].blank})
             + SpecSum([k \in 1..Len(joinList) |->
                          IF joinList[k].blank THEN 0
                          ELSE Len(SpecPageNumbers(joinList[k].page))])

\* A join that succeeded on a range and a second copy of one of its pages
C1_Witness ==
    /\ joining.status = "returned"
    /\ Len(joinList) = 2
    /\ joinList[1].page = Str(<<"1", "-", "2">>)
    /\ joinList[2] = PageItem(Num(0), Num(2))
    /\ Len(joining.bytes.pages) = 3

\* ------------------------------------------------------------------ C2
\* How often page p of source d (0-based) occurs, in range, in the expansions
\* of the entries that resolve and name d
SpecOccurrences(d, p) ==
    Cardinality({k \in 1..Len(joinList) :
        /\ joinList[k].pdf = Num(d)
        /\ SpecResolves(joinList[k])
        /\ SpecInRange(joinList[k], p)
        /\ \E n \in 1..Len(SpecPageNumbers(joinList[k].page)) :
               SpecPageNumbers(joinList[k].page)[n] = p})

\* The page numbers a usage record may be asked about
SpecPageUniverse == (-1)..(MaxPages + 2)

SpecUsageCounts ==
    \A d \in 1..Len(pdfs) :
        LET usedPages == test.result.usage[d].usedPages
        IN /\ DOMAIN usedPages \subseteq SpecPageUniverse
           /\ \A p \in SpecPageUniverse :
                  LET n == SpecOccurrences(d - 1, p)
                  IN IF n = 0
                     THEN p \notin DOMAIN usedPages
                     ELSE p \in DOMAIN usedPages /\ usedPages[p] = n

\* C2: after testList returns, usedPages[p] of source d is the number of
\* in-range occurrences of p in the expansions of the parseable entries with
\* pdf = d, a page without occurrence has no key, and usage has one record per
\* source, in input order.
C2_UsageCountsOccurrences ==
    test.status = "returned" =>
        /\ Len(test.result.usage) = Len(pdfs)
        /\ \A d \in 1..Len(pdfs) : test.result.usage[d].file = pdfs[d]
        /\ SpecUsageCounts

\* A page counted twice: once from a range that also holds a page out of
\* range, once from a single page
C2_Witness ==
    /\ test.status = "returned"
    /\ Len(joinList) = 2
    /\ joinList[1] = PageItem(Num(0), Str(<<"2", "-", "3">>))
    /\ joinList[2] = PageItem(Num(0), Num(2))
    /\ Len(pdfs) >= 1
    /\ pdfs[1] = FileName(2)
    /\ test.result.usage[1].usedPages[2] = 2

\* ------------------------------------------------------------------ C3
\* C3: when every source loads, testList does not raise: it returns a result
\* in which every faulty entry, also one after another faulty entry, has an
\* error string of its own position.
C3_TestListNeverRaises ==
    (AllSourcesLoad /\ test.status \in {"returned", "thrown"}) =>
        /\ test.status = "returned"
        /\ \A k \in SpecFaultyEntries :
               \E n \in 1..Len(test.result.errors) :
                   test.result.errors[n].entry = k - 1

\* Two faulty entries, the second a malformed page spec: both are reported
C3_Witness ==
    /\ AllSourcesLoad
    /\ test.status = "returned"
    /\ Len(joinList) = 2
    /\ joinList[1] = PageItem(Num(MaxPdfs), Num(1))
    /\ joinList[2] = PageItem(Num(0), Str(<<"2">>))
    /\ Len(test.result.errors) = 2

\* ------------------------------------------------------------------ C4
\* C4: join is all-or-nothing: with a faulty entry in the join list, join
\* throws at the first one, the entries before it are the only ones
\* processed, and no bytes are returned.
C4_JoinAllOrNothing ==
    (AllSourcesLoad /\ JoinFinished /\ SpecFaultyEntries # {}) =>
        /\ joining.status = "thrown"
        /\ joining.i = SpecMin(SpecFaultyEntries) - 1
        /\ "bytes" \notin DOMAIN joining

\* join threw on a range whose first page was already copied, and the entry
\* after it is valid
C4_Witness ==
    /\ AllSourcesLoad
    /\ joining.status = "thrown"
    /\ Len(joinList) = 2
    /\ joining.i = 0
    /\ Len(joining.outPdf.pages) = 1
    /\ ~SpecFaulty(joinList[2])
    /\ ~joinList[2].blank

\* ------------------------------------------------------------------ C5
\* The error names the entry: its position, or the entry itself
SpecErrorNamesEntry(error, k) ==
    \/ "entry" \in DOMAIN error /\ error.entry = k - 1
    \/ "item" \in DOMAIN error /\ error.item = joinList[k]

\* C5: every failure of join caused by a join-list entry is reported as an
\* error that identifies the entry that caused the abort.
C5_JoinErrorNamesEntry ==
    (AllSourcesLoad /\ joining.status = "thrown") =>
        SpecErrorNamesEntry(joining.error, joining.i + 1)

\* ------------------------------------------------------------------ C7
\* C7: listPdfs returns one record { file, totalPages } per source, in input
\* order, and the usage records of testList carry the same values.
C7_InventoryRecords ==
    /\ list.status = "returned" =>
          /\ Len(list.result) = Len(pdfs)
          /\ \A k \in 1..Len(pdfs) :
                 list.result[k] = [file |-> pdfs[k],
                                   totalPages |-> PageCountOnDisk(pdfs[k])]
    /\ (list.status = "returned" /\ test.status = "returned") =>
          \A k \in 1..Len(pdfs) :
              /\ test.result.usage[k].file = list.result[k].file
              /\ test.result.usage[k].totalPages = list.result[k].totalPages

\* ------------------------------------------------------------------ C6
\* The positions of the commas of arg, and the end marks around them
SpecCommas(arg) == {i \in 1..Len(arg) : arg[i] = ","}

\* The position of the j-th comma; 0 for j = 0, Len(arg) + 1 past the last
SpecCut(arg, j) ==
    IF j = 0 THEN 0
    ELSE IF j > Cardinality(SpecCommas(arg)) THEN Len(arg) + 1
    ELSE CHOOSE i \in SpecCommas(arg) :
             Cardinality({m \in SpecCommas(arg) : m <= i}) = j

\* The j-th comma-separated token, stripped
SpecToken(arg, j) ==
    SpecStrip([k \in 1..(SpecCut(arg, j) - SpecCut(arg, j - 1) - 1) |->
                  arg[SpecCut(arg, j - 1) + k]])

SpecIsBlankWord(tok) ==
    /\ Len(tok) = 5
    /\ tok[1] \in {"b", "B"}
    /\ tok[2] \in {"l", "L"}
    /\ tok[3] \in {"a", "A"}
    /\ tok[4] \in {"n", "N"}
    /\ tok[5] \in {"k", "K"}

\* digits or digits-digits
SpecIsPagePart(s) ==
    \/ SpecAllDigits(s)
    \/ \E h \in 1..Len(s) :
           /\ s[h] = "-"
           /\ SpecAllDigits(SubSeq(s, 1, h - 1))
           /\ SpecAllDigits(SubSeq(s, h + 1, Len(s)))

\* The colons of tok that split it into digits ":" digits or digits-digits
SpecColons(tok) ==
    {c \in 1..Len(tok) :
        /\ tok[c] = ":"
        /\ SpecAllDigits(SubSeq(tok, 1, c - 1))
        /\ SpecIsPagePart(SubSeq(tok, c + 1, Len(tok)))}

SpecTokenIsBlank(tok) == tok = <<>> \/ SpecIsBlankWord(tok)
SpecTokenIsBad(tok) == ~SpecTokenIsBlank(tok) /\ SpecColons(tok) = {}

\* The item a token that is not bad decodes to
SpecItemOf(tok) ==
    IF SpecTokenIsBlank(tok) THEN [blank |-> TRUE, pdf |-> Undefined, page |-> Undefined]
    ELSE LET c == CHOOSE c \in SpecColons(tok) : TRUE
             before == SubSeq(tok, 1, c - 1)
             after == SubSeq(tok, c + 1, Len(tok))
         IN [blank |-> FALSE,
             pdf |-> Num(SpecDecimal(before)),
             page |-> IF SpecAllDigits(after)
                      THEN Num(SpecDecimal(after))
                      ELSE Str(after)]

SpecBadTokens(arg) ==
    {j \in 1..(Cardinality(SpecCommas(arg)) + 1) : SpecTokenIsBad(SpecToken(arg, j))}

\* C6: parsePagesArg either fails, naming the leftmost trimmed token that is
\* neither empty, nor 'blank' in any case, nor digits:digits or
\* digits:digits-digits; or returns one item per comma-separated token, in
\* token order: a blank item for an empty or 'blank' token, { pdf, page } with
\* the integers, or the unchanged range string, for a matching token.
C6_DecodeInline ==
    decode.status # "none" =>
        LET arg == pagesArg.s
            n == Cardinality(SpecCommas(arg)) + 1
        IN IF SpecBadTokens(arg) # {}
           THEN /\ decode.status = "thrown"
                /\ decode.error.token = SpecToken(arg, SpecMin(SpecBadTokens(arg)))
           ELSE /\ decode.status = "returned"
                /\ Len(decode.items) = n
                /\ \A j \in 1..n : decode.items[j] = SpecItemOf(SpecToken(arg, j))

\* ' BlanK' and ' 1:2 ' decoded to a blank item and { pdf: 1, page: 2 }
C6_Witness ==
    /\ decode.status = "returned"
    /\ pagesArg = Str(<<" ", "B", "l", "a", "n", "K", ",", " ", "1", ":", "2", " ">>)
    /\ decode.items = <<BlankItem, PageItem(Num(1), Num(2))>>

\* ------------------------------------------------------------------ C8
\* The errors of entry k (1-based) among the errors of testList, in order
SpecErrorsOf(k) ==
    LET OfEntry(e) == e.entry = k - 1
    IN SelectSeq(test.result.errors, OfEntry)

\* The page numbers of an entry outside [1, total], ascending
SpecPagesOutOfRange(item) ==
    LET Outside(p) == ~SpecInRange(item, p)
    IN SelectSeq(SpecPageNumbers(item.page), Outside)

SpecErrorsAsClaimed(k) ==
    LET item == joinList[k]
        errors == SpecErrorsOf(k)
    IN IF item.blank THEN errors = <<>>
       ELSE IF item.page = Undefined
       THEN errors = <<[entry |-> k - 1, message |-> "missing 'page' value"]>>
       ELSE IF ~SpecParses(item.page)
       THEN /\ Len(errors) = 1
            /\ "caught" \in DOMAIN errors[1]
            /\ errors[1].message \in {"Invalid page range format",
                                      "Invalid range: start > end"}
       ELSE errors =
               [n \in 1..Len(SpecPagesOutOfRange(item)) |->
                   [entry |-> k - 1, message |-> "has no page",
                    pdf |-> item.pdf, page |-> SpecPagesOutOfRange(item)[n],
                    max |-> SpecTotal(item)]]

\* C8: when every page reference has a non-negative integer pdf, the errors of
\* testList are in entry order and per entry: none for a blank entry, one for
\* a missing page, one for a page spec that does not parse (and no usage for
\* it), else one out-of-range message per page number outside [1, total],
\* ascending, each with the entry position, the pdf index, the page, the total.
C8_ErrorsPerEntry ==
    (/\ test.status = "returned"
     /\ \A k \in 1..Len(joinList) : joinList[k].blank \/ SpecPdfIsIndex(joinList[k])) =>
        /\ \A m, n \in 1..Len(test.result.errors) :
               m < n => test.result.errors[m].entry <= test.result.errors[n].entry
        /\ \A n \in 1..Len(test.result.errors) :
               test.result.errors[n].entry \in 0..(Len(joinList) - 1)
        /\ \A k \in 1..Len(joinList) : SpecErrorsAsClaimed(k)
        /\ SpecUsageCounts

\* A range with two pages out of range after an entry with start > end: three
\* errors, in entry and page order
C8_Witness ==
    /\ test.status = "returned"
    /\ Len(joinList) = 2
    /\ joinList[1] = PageItem(Num(0), Str(<<"2", "-", "1">>))
    /\ joinList[2] = PageItem(Num(0), Str(<<"2", "-", "3">>))
    /\ pdfs = <<FileName(1)>>
    /\ Len(test.result.errors) = 3
    /\ test.result.errors[3].page = 3

\* ------------------------------------------------------------------ C9
\* pdf is missing, not an integer, or negative
SpecPdfInvalid(item) == ~item.blank /\ ~SpecPdfIsIndex(item)

\* C9: in testList every non-blank entry whose pdf is missing, not an integer
\* or negative contributes exactly the one error "Entry #i: invalid or missing
\* 'pdf' index" and changes no usage record, whatever its page is.
C9_InvalidPdfOneError ==
    test.status = "returned" =>
        /\ \A k \in 1..Len(joinList) :
               SpecPdfInvalid(joinList[k]) =>
                   SpecErrorsOf(k) =
                       <<[entry |-> k - 1, message |-> "invalid or missing 'pdf' index"]>>
        /\ SpecUsageCounts

\* ----------------------------------------------------------------- C10
\* C10: for the same loadable sources and join list, testList returns no
\* errors if and only if join completes without an error.
C10_ValidIffJoins ==
    (AllSourcesLoad /\ test.status = "returned" /\ JoinFinished) =>
        (test.result.errors = <<>> <=> joining.status = "returned")

\* Both directions: a clean validation followed by a join that returned
C10_Witness ==
    /\ AllSourcesLoad
    /\ test.status = "returned"
    /\ test.result.errors = <<>>
    /\ joining.status = "returned"
    /\ Len(joinList) = 2
    /\ \A k \in 1..2 : ~joinList[k].blank

\* ----------------------------------------------------------------- C11
\* The positions (1-based) of the sources that do not load
SpecBrokenSources == {k \in 1..Len(pdfs) : pdfs[k] \notin GoodFiles}

\* How many sources a call has loaded so far
SpecLoadedCount(call, field) == IF field \in DOMAIN call THEN Len(call[field]) ELSE 0

\* The load of a call stands where the claim says: the sources loaded are a
\* prefix of the input that stops before the first source that does not
\* load, and a call that threw while a source does not load threw on that
\* source, having loaded every source before it
SpecLoadAsClaimed(call, field) ==
    LET n == SpecLoadedCount(call, field)
    IN /\ n <= Len(pdfs)
       /\ SpecBrokenSources # {} =>
             /\ n < SpecMin(SpecBrokenSources)
             /\ call.status # "returned"
             /\ call.status = "thrown" =>
                   /\ n = SpecMin(SpecBrokenSources) - 1
                   /\ call.error.file = pdfs[SpecMin(SpecBrokenSources)]

SpecLoadState ==
    /\ SpecLoadAsClaimed(list, "result")
    /\ \A k \in 1..SpecLoadedCount(list, "result") :
           list.result[k].file = pdfs[k]
    /\ SpecLoadAsClaimed(test, "info")
    /\ \A k \in 1..SpecLoadedCount(test, "info") :
           test.info[k].file = pdfs[k]
    /\ SpecLoadAsClaimed(joining, "loadedPdfs")
    /\ \A k \in 1..SpecLoadedCount(joining, "loadedPdfs") :
           Len(joining.loadedPdfs[k].pages) = PageCountOnDisk(pdfs[k])
    \* every source is loaded before an entry is processed
    /\ "result" \in DOMAIN test =>
           SpecLoadedCount(test, "info") = Len(pdfs)
    /\ (joining.status # "none" /\ (joining.outPdf # Undefined \/ joining.i > 0)) =>
           SpecLoadedCount(joining, "loadedPdfs") = Len(pdfs)
    \* with a source that does not load: no entry processed, no page copied,
    \* nothing returned
    /\ SpecBrokenSources # {} =>
           /\ "result" \notin DOMAIN test
           /\ joining.status # "none" =>
                  /\ joining.outPdf = Undefined
                  /\ joining.i = 0
                  /\ "bytes" \notin DOMAIN joining

\* A step loads at most one source in each call
SpecLoadStep ==
    /\ SpecLoadedCount(list, "result")' \in
           {SpecLoadedCount(list, "result"), SpecLoadedCount(list, "result") + 1}
    /\ SpecLoadedCount(test, "info")' \in
           {SpecLoadedCount(test, "info"), SpecLoadedCount(test, "info") + 1}
    /\ SpecLoadedCount(joining, "loadedPdfs")' \in
           {SpecLoadedCount(joining, "loadedPdfs"),
            SpecLoadedCount(joining, "loadedPdfs") + 1}

\* C11: listPdfs, testList and join load the sources one at a time, in input
\* order, and all of them before any join-list entry is processed; when
\* source k does not load the call throws at once: no source after k is
\* loaded, no entry is processed, no page is copied, and no inventory,
\* result or bytes are returned, whatever the join list is.
C11_LoadInOrderAbortAtOnce == [](SpecLoadState) /\ [][SpecLoadStep]_vars

\* All three calls threw on the second source, with the first loaded and an
\* empty join list
C11_Witness ==
    /\ pdfs = <<FileName(1), BrokenFile>>
    /\ joinList = <<>>
    /\ pagesArg = Undefined
    /\ list.status = "thrown" /\ Len(list.result) = 1
    /\ test.status = "thrown" /\ Len(test.info) = 1
    /\ joining.status = "thrown" /\ Len(joining.loadedPdfs) = 1
====
